---- MODULE Spec2Model ----
(***************************************************************************)
(* Interactive Relationship Explorer (src/Q3.py): a seven-cell reactive    *)
(* notebook.  Two sliders (n, noise) feed a data-generation cell, whose    *)
(* DataFrame feeds a statistics cell, whose results feed a chart cell and  *)
(* a summary cell.                                                         *)
(*                                                                         *)
(* The cells, their references and definitions, the slider ranges and the  *)
(* cell bodies are taken from src/Q3.py.  The engine that re-runs cells    *)
(* (node states Stale / Computing / Fresh / Errored, the parameter setter  *)
(* with its range check) is not part of src/Q3.py; it is modelled from     *)
(* sections 4.1, 4.5 and 5 of the specification.                           *)
(*                                                                         *)
(* Number representation: the sample size is an integer; the noise sigma   *)
(* and every y value are fixed-point integers in hundredths (0.5 is 50).   *)
(* The pseudorandom stream is a deterministic function of (seed, position) *)
(* with draws in {-1, 0, 1}; it stands for the seeded generator, whose     *)
(* only properties used are that it is deterministic and position-based.   *)
(***************************************************************************)
EXTENDS Integers, Sequences, FiniteSets, TLC

VARIABLES
    nVal,       \* n.value: current value of the sample-size slider
    noiseVal,   \* noise.value in hundredths
    state,      \* state[c]: lifecycle state of cell c
    runs,       \* runs[c]: invocations of cell c since the last accepted change event
    intro,      \* output of cell 1
    libs,       \* names returned by cell 2
    controls,   \* widgets returned by cell 3
    df,         \* DataFrame returned by cell 4: columns x and y
    fit,        \* corr, m, b returned by cell 5
    fig,        \* figure returned by cell 6
    summary,    \* markdown rendered by cell 7
    rng,        \* the generator object last used by cell 4
    result,     \* outcome of the last set call: "none", "ok" or "OutOfRangeError"
    changed,    \* a change event has been accepted since startup
    prev,       \* outputs before the last event, when it re-set a parameter to its value
    faults,     \* library failures injected so far
    src         \* src[v]: the slider values that output v ("df", "fit", "summary") derives from

vars == <<nVal, noiseVal, state, runs, intro, libs, controls, df, fit, fig,
          summary, rng, result, changed, prev, faults, src>>

outputs == <<intro, libs, controls, df, fit, fig, summary, rng>>

----------------------------------------------------------------------------
(* Bounds of the model *)

\* Number of slider steps above the lower end that are offered as inputs,
\* besides the default, the upper end and out-of-range values.
MaxNSteps == 0
MaxNoiseSteps == 0

\* Number of library failures injected into cell invocations in one behaviour.
MaxFaults == 1

----------------------------------------------------------------------------
(* Cell 3: the two sliders *)

NSliderZeroStart == [start |-> 0, stop |-> 5000, step |-> 100, value |-> 1000]

\* mo.ui.slider(start=100, stop=5000, step=100, value=1000)
NSlider == [start |-> 100, stop |-> 5000, step |-> 100, value |-> 1000]

\* mo.ui.slider(start=0.0, stop=2.0, step=0.1, value=0.5), in hundredths
NoiseSlider == [start |-> 0, stop |-> 200, step |-> 10, value |-> 50]

Params == {"n", "noise"}

Slider(p) == IF p = "n" THEN NSlider ELSE NoiseSlider

----------------------------------------------------------------------------
(* The cells and their dependency graph *)

Cells == 1..7

NoDefs == {}

RefsIntroReadsN(c) ==
    CASE c = 1 -> {"mo", "n"}
      [] c = 2 -> NoDefs
      [] c = 3 -> {"mo"}
      [] c = 4 -> {"np", "pd", "n", "noise"}
      [] c = 5 -> {"np", "df"}
      [] c = 6 -> {"np", "plt", "df", "m", "b"}
      [] c = 7 -> {"mo", "n", "noise", "corr", "m", "b"}

RefsFitOmitsDf(c) ==
    CASE c = 1 -> {"mo"}
      [] c = 2 -> NoDefs
      [] c = 3 -> {"mo"}
      [] c = 4 -> {"np", "pd", "n", "noise"}
      [] c = 5 -> {"np"}
      [] c = 6 -> {"np", "plt", "df", "m", "b"}
      [] c = 7 -> {"mo", "n", "noise", "corr", "m", "b"}

RefsSummaryOmitsFit(c) ==
    CASE c = 1 -> {"mo"}
      [] c = 2 -> NoDefs
      [] c = 3 -> {"mo"}
      [] c = 4 -> {"np", "pd", "n", "noise"}
      [] c = 5 -> {"np", "df"}
      [] c = 6 -> {"np", "plt", "df", "m", "b"}
      [] c = 7 -> {"mo", "n", "noise"}

RefsSummaryReadsFig(c) ==
    CASE c = 1 -> {"mo"}
      [] c = 2 -> NoDefs
      [] c = 3 -> {"mo"}
      [] c = 4 -> {"np", "pd", "n", "noise"}
      [] c = 5 -> {"np", "df"}
      [] c = 6 -> {"np", "plt", "df", "m", "b"}
      [] c = 7 -> {"mo", "n", "noise", "corr", "m", "b", "fig"}

\* The parameters of each cell function: the names it reads.
Refs(c) ==
    CASE c = 1 -> {"mo"}
      [] c = 2 -> NoDefs
      [] c = 3 -> {"mo"}
      [] c = 4 -> {"np", "pd", "n", "noise"}
      [] c = 5 -> {"np", "df"}
      [] c = 6 -> {"np", "plt", "df", "m", "b"}
      [] c = 7 -> {"mo", "n", "noise", "corr", "m", "b"}

\* The return tuple of each cell function: the names it defines.
Defs(c) ==
    CASE c = 1 -> NoDefs
      [] c = 2 -> {"np", "pd", "plt"}
      [] c = 3 -> {"n", "noise"}
      [] c = 4 -> {"df"}
      [] c = 5 -> {"corr", "m", "b"}
      [] c = 6 -> {"fig"}
      [] c = 7 -> NoDefs

\* Direct dependencies of c: the cells defining a name c reads.
Parents(c) == {d \in Cells \ {c} : Defs(d) \cap Refs(c) # {}}

RECURSIVE Reach(_, _)
Reach(S, k) ==
    IF k = 0 THEN S
    ELSE Reach(S \cup {c \in Cells : Parents(c) \cap S # {}}, k - 1)

\* The cells reachable from the set S of cells, S included.
Closure(S) == Reach(S, Cardinality(Cells))

\* The cells affected by a change of parameter p: those that read the widget
\* without defining it, and everything downstream of them.
Affected(p) == Closure({c \in Cells : p \in Refs(c) /\ p \notin Defs(c)})

\* The dependency graph, computed once.
ParentsOf == [c \in Cells |-> Parents(c)]

AffectedBy == [p \in {"n", "noise"} |-> Affected(p)]

----------------------------------------------------------------------------
(* Integer helpers *)

RECURSIVE SumOver(_)
\* The sum of the first components of the pairs <<term, key>> in the finite set T.
SumOver(T) ==
    IF T = {} THEN 0
    ELSE LET e == CHOOSE e \in T : TRUE
         IN  e[1] + SumOver(T \ {e})

RECURSIVE SqrtBetween(_, _, _)
SqrtBetween(v, lo, hi) ==
    IF lo >= hi THEN lo
    ELSE LET mid == (lo + hi + 1) \div 2
         IN  IF mid * mid <= v THEN SqrtBetween(v, mid, hi)
             ELSE SqrtBetween(v, lo, mid - 1)

\* The integer square root of v >= 0 (46340 is the largest root of a 32-bit square).
Isqrt(v) == SqrtBetween(v, 0, 46340)

RECURSIVE Pow10(_)
Pow10(k) == IF k = 0 THEN 1 ELSE 10 * Pow10(k - 1)

RECURSIVE Digits(_, _, _)
\* a / d carried to k further decimal digits, truncated: floor(a * 10^k / d), a >= 0.
Digits(a, d, k) ==
    IF k = 0 THEN a \div d
    ELSE (a \div d) * Pow10(k) + Digits((a % d) * 10, d, k - 1)

\* v / q rounded to the nearest integer (fixed-precision formatting).
Round(v, q) == (v + q \div 2) \div q

----------------------------------------------------------------------------
(* The pseudorandom generator of cell 4 *)

\* rng = np.random.default_rng(123)
Seed == 123

\* The k-th standard draw of the stream seeded with seed.
Draw(seed, k) ==
    LET j == k % 9973
        u == (j * j + seed * j + j \div 7 + (j \div 3) * 5) % 9
    IN  IF u < 3 THEN -1 ELSE IF u < 6 THEN 0 ELSE 1

\* np.random.default_rng(seed): a new generator at the start of its stream.
default_rng(seed) == [seed |-> seed, pos |-> 0]

\* g.normal(0, scale, size): size draws scaled by scale, and the generator after them.
Normal(g, scale, size) ==
    [vals |-> [i \in 1..size |-> scale * Draw(g.seed, g.pos + i)],
     g    |-> [g EXCEPT !.pos = @ + size]]

----------------------------------------------------------------------------
(* Cell 4: data generation *)

Cell4RngCarried(old) == old

\* The generator cell 4 draws from, given the one its previous run left behind:
\* the cell creates a new one from the fixed seed on every run.
Cell4Rng(old) == default_rng(Seed)

\* rng.normal(..., size=n.value) raises ValueError for a negative size.
Raises4(n) == n < 0

Cell4OneRowShort(n, sigma, g0) ==
    LET xs == Normal(g0, 1, n - 1)
        es == Normal(xs.g, sigma, n - 1)
    IN  [df  |-> [x |-> xs.vals,
                  y |-> [i \in 1..(n - 1) |-> 250 * xs.vals[i] + es.vals[i]]],
         rng |-> es.g]

\* x = rng.normal(0, 1, n); y = 2.5 * x + rng.normal(0, sigma, n); df = {x, y}.
\* y and sigma are in hundredths.
Cell4(n, sigma, g0) ==
    LET xs == Normal(g0, 1, n)
        es == Normal(xs.g, sigma, n)
    IN  [df  |-> [x |-> xs.vals,
                  y |-> [i \in 1..n |-> 250 * xs.vals[i] + es.vals[i]]],
         rng |-> es.g]

EmptyFrame == [x |-> <<>>, y |-> <<>>]

----------------------------------------------------------------------------
(* Cell 5: correlation and least-squares fit *)

\* A float: a number, or nan.
Num(v) == [nan |-> FALSE, v |-> v]

NaN == [nan |-> TRUE, v |-> 0]

\* np.polyfit raises TypeError ("expected non-empty vector for x") on an empty column.
Raises5(d) == Len(d.x) = 0

\* The rows of d as a bag: <<x, y, multiplicity>> for every distinct row.
Bag(d) ==
    LET k    == Len(d.x)
        rows == {<<d.x[i], d.y[i]>> : i \in 1..k}
    IN  {<<r[1], r[2], Cardinality({i \in 1..k : d.x[i] = r[1] /\ d.y[i] = r[2]})>> :
            r \in rows}

\* corr, m, b of the DataFrame d (Len(d.x) > 0), each in ten-thousandths; the
\* sums are taken over the distinct rows, weighted by their multiplicity.  The
\* 32-bit arithmetic is sized for frames of up to about a thousand rows.
Cell5(d) ==
    LET wt   == Bag(d)
        k    == Len(d.x)
        Sx   == SumOver({<<t[3] * t[1], t>> : t \in wt})
        Sy   == SumOver({<<t[3] * t[2], t>> : t \in wt})
        Sxx  == SumOver({<<t[3] * t[1] * t[1], t>> : t \in wt})
        Syy  == SumOver({<<t[3] * t[2] * t[2], t>> : t \in wt})
        Sxy  == SumOver({<<t[3] * t[1] * t[2], t>> : t \in wt})
        cov  == Sxy - (Sx * Sy) \div k
        vx   == Sxx - (Sx * Sx) \div k
        vy   == Syy - (Sy * Sy) \div k
        mag  == IF cov >= 0 THEN cov ELSE -cov
        \* corr^2 = (cov / vx) * (cov / vy), in units of 10^-8
        r2   == (mag \div vx) * Digits(mag, vy, 8)
                    + ((mag % vx) * Digits(mag, vy, 8)) \div vx
        m    == IF vx = 0 THEN 0 ELSE (cov * 100) \div vx
    IN  [corr |-> IF vx = 0 \/ vy = 0 THEN NaN
                  ELSE Num((IF cov >= 0 THEN 1 ELSE -1) * Isqrt(r2)),
         m    |-> m,
         b    |-> (Sy * 100 - m * Sx) \div k]

NoFit == [corr |-> NaN, m |-> 0, b |-> 0]

----------------------------------------------------------------------------
(* Cell 6: scatter plot with the fitted line *)

\* xs = np.linspace(df["x"].min(), df["x"].max(), 200)
LineSamples == 200

Min(S) == CHOOSE v \in S : \A u \in S : v <= u
Max(S) == CHOOSE v \in S : \A u \in S : v >= u

\* np.linspace(lo, hi, num), in ten-thousandths.
linspace(lo, hi, num) ==
    [i \in 1..num |-> lo * 10000 + ((hi - lo) * 10000 * (i - 1)) \div (num - 1)]

Cell6(d, m, b) ==
    LET col == {d.x[i] : i \in 1..Len(d.x)}
        xs  == linspace(Min(col), Max(col), LineSamples)
    IN  [title   |-> "Scatter of y vs. x with fitted line",
         xlabel  |-> "x",
         ylabel  |-> "y",
         scatter |-> d,
         line    |-> [xs |-> xs,
                      ys |-> [i \in 1..LineSamples |-> (m * xs[i]) \div 10000 + b]]]

NoFig == [title |-> "", xlabel |-> "", ylabel |-> "", scatter |-> EmptyFrame,
          line |-> [xs |-> <<>>, ys |-> <<>>]]

----------------------------------------------------------------------------
(* Cell 7: live summary *)

\* n, sigma, corr to 3 decimals (thousandths), m and b to 2 decimals (hundredths).
Cell7(n, sigma, corr, m, b) ==
    [n     |-> n,
     sigma |-> sigma,
     corr  |-> IF corr.nan THEN NaN ELSE Num(Round(corr.v, 10)),
     m     |-> Round(m, 100),
     b     |-> Round(b, 100)]

NoSummary == [n |-> 0, sigma |-> 0, corr |-> NaN, m |-> 0, b |-> 0]

----------------------------------------------------------------------------
(* Cells 1 to 3 *)

Cell1 == "Interactive Relationship Explorer"

Cell2 == {"np", "pd", "plt"}

\* The two widgets cell 3 creates and returns.
Cell3 == [n |-> NSlider, noise |-> NoiseSlider]

----------------------------------------------------------------------------
(* Control State: the parameter setter *)

InRangeIgnoresStep(p, v) == v >= Slider(p).start /\ v <= Slider(p).stop

\* v respects the bounds (min, max, step) of parameter p.
InRange(p, v) ==
    /\ v >= Slider(p).start
    /\ v <= Slider(p).stop
    /\ (v - Slider(p).start) % Slider(p).step = 0

\* The values offered to the setter: the lowest steps of the slider, one step
\* below it, a value between two steps, the default and one step above the
\* upper end; for the noise slider also the upper end itself.
Choices(p) ==
    {Slider(p).start + k * Slider(p).step :
        k \in -1..(IF p = "n" THEN MaxNSteps ELSE MaxNoiseSteps)}
    \cup {Slider(p).start + Slider(p).step \div 2, Slider(p).value,
          Slider(p).stop + Slider(p).step}
    \cup (IF p = "noise" THEN {Slider(p).stop} ELSE {})

----------------------------------------------------------------------------
(* Reactive scheduler *)

\* c can be computed now: it is Stale and its direct dependencies are Fresh.
Ready(c) == state[c] = "Stale" /\ \A d \in ParentsOf[c] : state[d] = "Fresh"

SettledIgnoresStale == \A c \in Cells : state[c] # "Computing"

\* Nothing is being computed and nothing is left to compute.
Settled == \A c \in Cells : state[c] # "Computing" /\ ~Ready(c)

Snapshot ==
    [valid |-> TRUE, n |-> nVal, sigma |-> noiseVal,
     df |-> df, fit |-> fit, fig |-> fig, summary |-> summary]

NoSnapshot ==
    [valid |-> FALSE, n |-> 0, sigma |-> 0,
     df |-> EmptyFrame, fit |-> NoFit, fig |-> NoFig, summary |-> NoSummary]

\* set(p, v): rejected with OutOfRangeError when v violates the bounds of p;
\* otherwise the value is stored and the change event makes every affected
\* cell Stale.  Accepted only when the previous event is fully processed.
SetParam(p, v) ==
    /\ Settled
    /\ IF ~InRange(p, v)
       THEN /\ result' = "OutOfRangeError"
            /\ UNCHANGED <<nVal, noiseVal, state, runs, changed, prev>>
       ELSE /\ result' = "ok"
            /\ nVal' = IF p = "n" THEN v ELSE nVal
            /\ noiseVal' = IF p = "noise" THEN v ELSE noiseVal
            /\ state' = [c \in Cells |->
                           IF c \in AffectedBy[p] THEN "Stale" ELSE state[c]]
            /\ runs' = [c \in Cells |-> 0]
            /\ changed' = TRUE
            /\ prev' = IF (\A c \in Cells : state[c] = "Fresh")
                          /\ v = (IF p = "n" THEN nVal ELSE noiseVal)
                       THEN Snapshot ELSE NoSnapshot
    /\ UNCHANGED <<outputs, faults, src>>

\* The scheduler picks a Stale cell whose dependencies are Fresh and invokes it.
Begin(c) ==
    /\ \A d \in Cells : state[d] # "Computing"
    /\ Ready(c)
    /\ state' = [state EXCEPT ![c] = "Computing"]
    /\ runs' = [runs EXCEPT ![c] = @ + 1]
    /\ UNCHANGED <<nVal, noiseVal, outputs, result, changed, prev, faults, src>>

\* The body of cell c raises on its inputs.
Raises(c) ==
    CASE c = 4 -> Raises4(nVal)
      [] c = 5 -> Raises5(df)
      [] OTHER -> FALSE

\* The invocation of cell c returns: its outputs are stored and it is Fresh,
\* or it raised (by itself, or a library call failed) and it is Errored with
\* its outputs left as they were.
Finish(c, fault) ==
    /\ state[c] = "Computing"
    /\ fault => faults < MaxFaults
    /\ faults' = IF fault THEN faults + 1 ELSE faults
    /\ IF fault \/ Raises(c)
       THEN /\ state' = [state EXCEPT ![c] = "Errored"]
            /\ UNCHANGED <<nVal, noiseVal, outputs, src>>
       ELSE /\ state' = [state EXCEPT ![c] = "Fresh"]
            /\ intro' = IF c = 1 THEN Cell1 ELSE intro
            /\ libs' = IF c = 2 THEN Cell2 ELSE libs
            /\ controls' = IF c = 3 THEN Cell3 ELSE controls
            /\ nVal' = IF c = 3 THEN Cell3.n.value ELSE nVal
            /\ noiseVal' = IF c = 3 THEN Cell3.noise.value ELSE noiseVal
            /\ LET gen == Cell4(nVal, noiseVal, Cell4Rng(rng))
               IN  /\ df' = IF c = 4 THEN gen.df ELSE df
                   /\ rng' = IF c = 4 THEN gen.rng ELSE rng
            /\ fit' = IF c = 5 THEN Cell5(df) ELSE fit
            /\ fig' = IF c = 6 THEN Cell6(df, fit.m, fit.b) ELSE fig
            /\ summary' = IF c = 7
                          THEN Cell7(nVal, noiseVal, fit.corr, fit.m, fit.b)
                          ELSE summary
            /\ src' = CASE c = 4 -> [src EXCEPT !.df = [n |-> nVal, sigma |-> noiseVal]]
                         [] c = 5 -> [src EXCEPT !.fit = src.df]
                         [] c = 7 -> [src EXCEPT !.summary = src.fit]
                         [] OTHER -> src
    /\ UNCHANGED <<runs, result, changed, prev>>

----------------------------------------------------------------------------
(* The notebook after app.run() with the default slider values *)

StartDf == Cell4(NSlider.value, NoiseSlider.value, default_rng(Seed))

StartFit == Cell5(StartDf.df)

Init ==
    /\ nVal = NSlider.value
    /\ noiseVal = NoiseSlider.value
    /\ state = [c \in Cells |-> "Fresh"]
    /\ runs = [c \in Cells |-> 0]
    /\ intro = Cell1
    /\ libs = Cell2
    /\ controls = Cell3
    /\ df = StartDf.df
    /\ rng = StartDf.rng
    /\ fit = StartFit
    /\ fig = Cell6(StartDf.df, StartFit.m, StartFit.b)
    /\ summary = Cell7(NSlider.value, NoiseSlider.value,
                       StartFit.corr, StartFit.m, StartFit.b)
    /\ result = "none"
    /\ changed = FALSE
    /\ prev = NoSnapshot
    /\ faults = 0
    /\ src = [v \in {"df", "fit", "summary"} |->
                [n |-> NSlider.value, sigma |-> NoiseSlider.value]]

Next ==
    \/ \E p \in Params : \E v \in Choices(p) : SetParam(p, v)
    \/ \E c \in Cells : Begin(c)
    \/ \E c \in Cells : \E fault \in BOOLEAN : Finish(c, fault)

Spec == Init /\ [][Next]_vars

----------------------------------------------------------------------------
(* The first run of cells 4 to 7 on given slider values, valid or not *)

StartSizes == {-NSlider.step, 0, NSlider.start, NSlider.start + NSlider.step}

StartSigmas == {NoiseSlider.start, NoiseSlider.value, NoiseSlider.stop}

\* Nothing has been derived yet.
NoSource == [n |-> 0, sigma |-> -1]

InitStartup ==
    /\ nVal \in StartSizes
    /\ noiseVal \in StartSigmas
    /\ state = [c \in Cells |-> IF c \in 1..3 THEN "Fresh" ELSE "Stale"]
    /\ runs = [c \in Cells |-> 0]
    /\ intro = Cell1
    /\ libs = Cell2
    /\ controls = Cell3
    /\ df = EmptyFrame
    /\ rng = default_rng(Seed)
    /\ fit = NoFit
    /\ fig = NoFig
    /\ summary = NoSummary
    /\ result = "none"
    /\ changed = FALSE
    /\ prev = NoSnapshot
    /\ faults = 0
    /\ src = [v \in {"df", "fit", "summary"} |-> NoSource]

NextStartup ==
    \/ \E c \in Cells : Begin(c)
    \/ \E c \in Cells : \E fault \in BOOLEAN : Finish(c, fault)

SpecStartup == InitStartup /\ [][NextStartup]_vars

----------------------------------------------------------------------------
(* The notebook's graph as the claims describe it *)

\* The cells downstream of the sliders: Dataset, FitResult, chart, summary.
Downstream == 4..7

\* The downstream cells a downstream cell depends on, directly or not.
Upstream(c) ==
    CASE c = 4 -> {}
      [] c = 5 -> {4}
      [] c = 6 -> {4, 5}
      [] c = 7 -> {4, 5}
      [] OTHER -> {}

\* No cell is Computing, and no cell is Stale except below an Errored cell.
AtRest ==
    \A c \in Cells :
        /\ state[c] # "Computing"
        /\ state[c] = "Stale" => \E d \in Upstream(c) : state[d] = "Errored"

AllFresh == \A c \in Cells : state[c] = "Fresh"

\* In this step a set call returned or a change event reached the scheduler.
InputStep ==
    \/ nVal' # nVal
    \/ noiseVal' # noiseVal
    \/ result' # result
    \/ \E c \in Cells : state[c] # "Stale" /\ state'[c] = "Stale"

----------------------------------------------------------------------------
(* Claims *)

\* C1: after an accepted parameter change every downstream cell is invoked at
\* most once; a cell is invoked only after every downstream cell it depends on
\* has been recomputed and is Fresh; and when the system is at rest every
\* downstream cell has been recomputed, unless it sits below an Errored cell.
C1_RecomputedOnceInOrder ==
    changed =>
        /\ \A c \in Downstream : runs[c] <= 1
        /\ \A c \in Downstream :
               state[c] = "Computing" =>
                   \A d \in Upstream(c) : state[d] = "Fresh" /\ runs[d] = 1
        /\ AtRest =>
               \A c \in Downstream :
                   \/ runs[c] = 1 /\ state[c] \in {"Fresh", "Errored"}
                   \/ /\ runs[c] = 0
                      /\ state[c] = "Stale"
                      /\ \E d \in Upstream(c) : state[d] = "Errored"

C1_Witness ==
    /\ changed
    /\ nVal # 1000
    /\ AtRest
    /\ \A c \in Downstream : state[c] = "Fresh" /\ runs[c] = 1

\* C2: cells 1 to 3 (intro, imports, controls) are never affected by a change
\* of n or sigma: they stay Fresh, are never invoked, and keep their outputs.
C2_UnreachableUntouched ==
    /\ [](\A c \in 1..3 : state[c] = "Fresh" /\ runs[c] = 0)
    /\ [][intro' = intro /\ libs' = libs /\ controls' = controls]_vars

C2_Witness ==
    /\ changed
    /\ nVal # 1000
    /\ noiseVal # 50
    /\ \A c \in Downstream : state[c] = "Fresh" /\ runs[c] = 1

\* The documented ranges: n in [100, 5000] step 100, sigma in [0.0, 2.0] step 0.1.
Documented(p, v) ==
    IF p = "n" THEN v \in {100 * k : k \in 1..50}
               ELSE v \in {10 * k : k \in 0..20}

\* C3: a set call with a value outside the documented range returns
\* OutOfRangeError and changes nothing: both values, every cell state, every
\* invocation count and every output stay as they were.
C3_OutOfRangeRejected ==
    [][\A p \in Params : \A v \in Choices(p) :
          (~Documented(p, v) /\ SetParam(p, v)) =>
              /\ result' = "OutOfRangeError"
              /\ UNCHANGED <<nVal, noiseVal, state, runs, outputs, changed, prev, src>>]_vars

C3_Witness ==
    /\ result = "OutOfRangeError"
    /\ changed
    /\ nVal = 100
    /\ AllFresh

\* C4: an Errored cell stays Errored until the next accepted change makes it
\* Stale; the cells below an Errored cell stay Stale and are not invoked; at
\* rest every downstream cell not below an Errored cell has been recomputed
\* (the chart failing does not keep the summary from being computed, and the
\* other way round); and a pass is never stuck: until the system is at rest
\* an invocation is under way or the scheduler can invoke a cell.
C4_FailureIsLocal ==
    /\ [](changed =>
            /\ \A c \in Downstream : state[c] = "Errored" =>
                   \A d \in Downstream :
                       c \in Upstream(d) => state[d] = "Stale" /\ runs[d] = 0
            /\ AtRest =>
                   \A c \in Downstream :
                       (\A d \in Upstream(c) : state[d] # "Errored") =>
                           runs[c] = 1 /\ state[c] \in {"Fresh", "Errored"})
    /\ [][\A c \in Cells :
             (state[c] = "Errored" /\ state'[c] # "Errored") =>
                 state'[c] = "Stale" /\ result' = "ok" /\ runs' = [d \in Cells |-> 0]]_vars
    /\ [](\/ AtRest
          \/ \E c \in Cells : state[c] = "Computing"
          \/ ENABLED (\E c \in Cells : Begin(c)))

C4_Witness ==
    /\ AtRest
    /\ state[5] = "Fresh"
    /\ state[6] = "Errored"
    /\ state[7] = "Fresh"
    /\ runs[7] = 1

C6_RerunIdentical ==
    AllFresh =>
        /\ prev.valid =>
               /\ prev.n = nVal /\ prev.sigma = noiseVal
               /\ df = prev.df /\ fit = prev.fit
               /\ fig = prev.fig /\ summary = prev.summary
        /\ (nVal = NSlider.value /\ noiseVal = NoiseSlider.value) =>
               /\ df = StartDf.df
               /\ fit = StartFit
               /\ fig = Cell6(StartDf.df, StartFit.m, StartFit.b)
               /\ summary = Cell7(NSlider.value, NoiseSlider.value,
                                  StartFit.corr, StartFit.m, StartFit.b)

C6_Witness ==
    /\ AllFresh
    /\ prev.valid
    /\ nVal = 100
    /\ \A c \in Downstream : runs[c] = 1

\* C7: the Dataset cell 4 produced has exactly n rows: both columns have
\* length n.
C7_DatasetHasNRows ==
    state[4] = "Fresh" => Len(df.x) = nVal /\ Len(df.y) = nVal

C7_Witness ==
    /\ changed
    /\ state[4] = "Fresh"
    /\ runs[4] = 1
    /\ nVal = 100
    /\ Len(df.x) = 100

\* C8: a set call is taken, and a change event reaches the scheduler, only
\* when the system is at rest.
C8_InputsSerialized == [][InputStep => AtRest]_vars

C8_Witness ==
    /\ faults = 1
    /\ result = "ok"
    /\ AllFresh
    /\ \A c \in Downstream : runs[c] = 1

\* C9: n is always a multiple of 100 in [100, 5000] and sigma a multiple of
\* 0.1 in [0.0, 2.0]; until the first accepted change n is 1000, sigma is 0.5
\* and every cell is Fresh.
C9_ParametersInRange ==
    /\ Documented("n", nVal)
    /\ Documented("noise", noiseVal)
    /\ ~changed => nVal = 1000 /\ noiseVal = 50 /\ AllFresh

C9_Witness ==
    /\ changed
    /\ nVal = 100
    /\ noiseVal = 200
    /\ AllFresh

\* C10: whenever the summary cell is Fresh, the n and sigma it shows are the
\* values the current Dataset was generated from, the fit it read was computed
\* from that Dataset, and the corr, m, b it shows are those of the current fit.
C10_SummaryGlitchFree ==
    state[7] = "Fresh" =>
        /\ summary.n = src.df.n
        /\ summary.sigma = src.df.sigma
        /\ src.summary = src.df
        /\ summary = Cell7(nVal, noiseVal, fit.corr, fit.m, fit.b)

C10_Witness ==
    /\ changed
    /\ state[7] = "Fresh"
    /\ runs[7] = 1
    /\ summary.n = 100
    /\ summary.sigma = 200

====
